---- MODULE Spec2Model ----
(***************************************************************************)
(* Glyph atlas and symbol cache of epitaph's OpenGL text renderer          *)
(* (src/text.rs): GlRasterizer (cache + string shaping), Atlas (shelf      *)
(* packer over fixed-size textures) and the conversions AtlasEntry is      *)
(* built with.  The font service (crossfont), the SVG renderer (resvg) and *)
(* OpenGL are outside the file; their answers are inputs chosen with \E.   *)
(***************************************************************************)
EXTENDS Integers, Sequences, FiniteSets, TLC

\* ------------------------------------------------------------------------
\* Constants of the program and bounds of the model.

\* const ATLAS_SIZE: i32 = 1024
ATLAS_SIZE == 1024

\* Longest string handed to rasterize_string.
MaxTextLen == 3

\* Calls that end in an error (font, SVG or atlas) explored per behaviour.
MaxFailedCalls == 1

\* Calls that end in "atlas is full" explored per behaviour of PackSpec.
MaxFullCalls == 2

\* Most pixels of a buffer handed to rgb_to_rgba (RgbSpec).
MaxPixels == 2

\* Characters the callers ask for (Spec), and those of the packing runs.
Chars == {"a", "b"}
PackChars == {"a", "b", "c"}

\* enum Svg
Svg ==
    {"BatteryCharging100", "BatteryCharging80", "BatteryCharging60",
     "BatteryCharging40", "BatteryCharging20", "Battery100", "Battery80",
     "Battery60", "Battery40", "Battery20"}

\* The icons the callers ask for (Spec), and those of the packing runs.
SvgInputs == {"BatteryCharging100"}
PackSvgs == {"Battery20"}

\* Svg::size
SvgSize(svg) ==
    IF svg \in {"BatteryCharging100", "BatteryCharging80", "BatteryCharging60",
                "BatteryCharging40", "BatteryCharging20"}
    THEN [width |-> 22, height |-> 14]
    ELSE [width |-> 22, height |-> 8]

\* CacheKey::Character(c) / CacheKey::Svg(svg) through the two From impls.
CharacterKey(c) == <<"Character", c>>
SvgKey(svg) == <<"Svg", svg>>
CacheKeys ==
    {CharacterKey(c) : c \in Chars \cup PackChars}
        \cup {SvgKey(s) : s \in SvgInputs \cup PackSvgs}

\* GlRasterizer::glyph_key: the font and size are fixed at construction.
glyph_key(character) ==
    [font_key |-> "font", size |-> "size", character |-> character]

\* ------------------------------------------------------------------------
\* Integer conversions.

Max(a, b) == IF a >= b THEN a ELSE b

\* `x as i16` on an i32: wraps modulo 2^16 into [-32768, 32767].
AsI16(x) == ((x + 32768) % 65536) - 32768

\* `q as i32` on an f32 given as the fraction num/den: truncation toward zero.
F32AsI32(q) ==
    IF q.num >= 0 THEN q.num \div q.den ELSE -((-q.num) \div q.den)

\* `n as f32 / ATLAS_SIZE as f32`: exact for the integers that occur (a power
\* of two divides them), so the result is the fraction n / ATLAS_SIZE.
Uv(n) == [num |-> n, den |-> ATLAS_SIZE]

\* ------------------------------------------------------------------------
\* The font service: crossfont's RasterizedGlyph for a glyph key.

Glyph(w, h, t, l, ax, kind) ==
    [width |-> w, height |-> h, top |-> t, left |-> l,
     advance |-> <<ax, 0>>, buffer |-> kind]

\* Answers Rasterizer::get_glyph can give: an empty glyph (a space), glyphs
\* that share a row, a glyph filling a whole texture, glyphs wider or taller
\* than a texture (a very large font size), and one that lies further above
\* the baseline than the i16 of GlSubTexture holds.
GlyphShapes ==
    {Glyph(0, 0, 0, 0, 8, "Rgb"),
     Glyph(300, 512, 500, -2, 310, "Rgb"),
     Glyph(512, 512, 500, 3, 520, "Rgb"),
     Glyph(1024, 1024, 1000, 0, 1030, "Rgba"),
     Glyph(1500, 512, 500, 0, 1510, "Rgb"),
     Glyph(512, 1500, 1400, 0, 520, "Rgb"),
     Glyph(512, 512, 40000, 3, 520, "Rgb")}

\* get_glyph returns Err (the font has no such glyph, FreeType failed).
FontError == [error |-> "font error"]
\* What get_glyph answers in Spec: an empty glyph, one as high as a texture
\* and half as wide, one wider than a texture, or an error.
FontAnswers ==
    {Glyph(0, 0, 0, 0, 8, "Rgb"),
     Glyph(512, 1024, 1000, 3, 520, "Rgb"),
     Glyph(1500, 512, 500, 0, 1510, "Rgba"),
     FontError}

\* Answers of the SVG pipeline (Pixmap::new, Tree::from_str, resvg::render).
SvgAnswers == {"ok", "Invalid SVG buffer size", "svg parse error",
               "Invalid SVG target size"}

Q(n, d) == [num |-> n, den |-> d]

\* Rasterizer::kerning(last_key, glyph_key): a pair of f32 given as fractions.
kerning(last_key, key) ==
    IF last_key.character = "a" /\ key.character = "b"
    THEN <<Q(2, 1), Q(0, 1)>>
    ELSE IF last_key.character = "b" /\ key.character = "a"
    THEN <<Q(-3, 2), Q(3, 2)>>
    ELSE IF last_key.character = "a" /\ key.character = "a"
    THEN <<Q(5, 2), Q(0, 1)>>
    ELSE <<Q(0, 1), Q(0, 1)>>

\* ------------------------------------------------------------------------
\* AtlasEntry.

\* The u8 values the buffers of RgbSpec are made of.
Bytes == {0, 128, 255}

\* The 3-channel buffers handed to rgb_to_rgba: 3 bytes per pixel.
RgbBuffers == UNION {[1..(3 * n) -> Bytes] : n \in 0..MaxPixels}

\* rgb_to_rgba with the three colour bytes of each pixel stored in reverse.
rgb_to_rgbaReversed(rgb) ==
    LET pixel_count == Len(rgb) \div 3
    IN [i \in 1..(pixel_count * 4) |->
           LET pixel == (i - 1) \div 4
               channel == (i - 1) % 4
           IN IF channel < 3 THEN rgb[3 * pixel + (2 - channel) + 1] ELSE 255]

\* rgb_to_rgba: a buffer of 255s, 4 per pixel, whose first 3 bytes of each
\* pixel are overwritten with the pixel's 3 bytes of `rgb`.
rgb_to_rgba(rgb) ==
    LET pixel_count == Len(rgb) \div 3
    IN [i \in 1..(pixel_count * 4) |->
           LET pixel == (i - 1) \div 4
               channel == (i - 1) % 4
           IN IF channel < 3 THEN rgb[3 * pixel + channel + 1] ELSE 255]

\* AtlasEntry::new_svg
new_svg(width, height) ==
    [width |-> width, height |-> height, top |-> 0, left |-> 0,
     advance |-> <<width, 0>>, multicolor |-> TRUE]

\* From<&RasterizedGlyph> for AtlasEntry
FromRasterizedGlyph(glyph) ==
    [width |-> glyph.width, height |-> glyph.height, top |-> glyph.top,
     left |-> glyph.left, advance |-> glyph.advance,
     multicolor |-> (glyph.buffer = "Rgba")]

\* ------------------------------------------------------------------------
\* Atlas.

\* Default for Atlas, with the texture create_texture returned.
AtlasDefault(texture) ==
    [textures |-> <<texture>>, row_height |-> 0, cursor_x |-> 0, cursor_y |-> 0]

\* The check with >= for >: a cursor on the edge already counts as full.
IsFullAtEdge(a) == a.cursor_x >= ATLAS_SIZE \/ a.cursor_y >= ATLAS_SIZE

\* "Error if entry cannot fit at all."
IsFull(a) == a.cursor_x > ATLAS_SIZE \/ a.cursor_y > ATLAS_SIZE

\* A row that is never left.
NeedsRowNever(a, entry) == FALSE

\* "Create new row if entry doesn't fit into current one."
NeedsRow(a, entry) == a.cursor_x + entry.width > ATLAS_SIZE

\* A new row that starts at the old row's baseline.
RowWrapSameBaseline(a, entry) ==
    IF NeedsRow(a, entry)
    THEN [a EXCEPT !.row_height = 0, !.cursor_x = 0]
    ELSE a

RowWrap(a, entry) ==
    IF NeedsRow(a, entry)
    THEN [a EXCEPT !.cursor_y = a.cursor_y + a.row_height,
                   !.row_height = 0,
                   !.cursor_x = 0]
    ELSE a

\* The test with >= for >: an entry that ends on the edge counts as too high.
NeedsTextureAtEdge(a, entry) == a.cursor_y + entry.height >= ATLAS_SIZE

\* "Create a new texture if the row's available height is too little."
NeedsTexture(a, entry) == a.cursor_y + entry.height > ATLAS_SIZE

\* An atlas of one texture: no texture is added when the height runs out.
PageWrapSingleTexture(a, entry, texture) == a

\* The new texture takes the place of the old ones in the list.
PageWrapReplacing(a, entry, texture) ==
    IF NeedsTexture(a, entry)
    THEN [textures |-> <<texture>>,
          row_height |-> 0, cursor_x |-> 0, cursor_y |-> 0]
    ELSE a

PageWrap(a, entry, texture) ==
    IF NeedsTexture(a, entry)
    THEN [textures |-> Append(a.textures, texture),
          row_height |-> 0, cursor_x |-> 0, cursor_y |-> 0]
    ELSE a

\* self.textures[self.textures.len() - 1]
ActiveTexture(a) == a.textures[Len(a.textures)]

\* gl::TexSubImage2D(TEXTURE_2D, 0, cursor_x, cursor_y, width, height, ...)
Upload(a, entry) ==
    [texture |-> ActiveTexture(a), x |-> a.cursor_x, y |-> a.cursor_y,
     width |-> entry.width, height |-> entry.height]

\* A GlSubTexture with the two axes of its position exchanged.
SubTextureTransposed(a, entry) ==
    [texture_id |-> ActiveTexture(a),
     multicolor |-> entry.multicolor,
     top |-> AsI16(entry.top),
     left |-> AsI16(entry.left),
     width |-> AsI16(entry.width),
     height |-> AsI16(entry.height),
     uv_bot |-> Uv(a.cursor_x),
     uv_left |-> Uv(a.cursor_y),
     uv_width |-> Uv(entry.width),
     uv_height |-> Uv(entry.height),
     advance |-> entry.advance]

\* The GlSubTexture insert returns.
SubTexture(a, entry) ==
    [texture_id |-> ActiveTexture(a),
     multicolor |-> entry.multicolor,
     top |-> AsI16(entry.top),
     left |-> AsI16(entry.left),
     width |-> AsI16(entry.width),
     height |-> AsI16(entry.height),
     uv_bot |-> Uv(a.cursor_y),
     uv_left |-> Uv(a.cursor_x),
     uv_width |-> Uv(entry.width),
     uv_height |-> Uv(entry.height),
     advance |-> entry.advance]

\* The row height is updated, the write position is not moved.
AdvanceCursorStuck(a, entry) ==
    [a EXCEPT !.row_height = Max(a.row_height, entry.height)]

\* The row takes the height of its latest entry, not of its highest.
AdvanceCursorLatestHeight(a, entry) ==
    [a EXCEPT !.row_height = entry.height,
              !.cursor_x = a.cursor_x + entry.width]

\* "Update atlas write position."
AdvanceCursor(a, entry) ==
    [a EXCEPT !.row_height = Max(a.row_height, entry.height),
              !.cursor_x = a.cursor_x + entry.width]

\* Absent values: no GlSubTexture, no AtlasEntry, no upload, no key.
NoGlyph == [none |-> "glyph"]
NoEntry == [none |-> "entry"]
NoUpload == [none |-> "upload"]
NoKey == <<"none", "none">>

\* Atlas::insert with the overflow check made after the row wrap.
insertCheckingLate(a, entry, texture) ==
    IF IsFull(a)
    THEN [ok |-> FALSE, err |-> "atlas is full", atlas |-> RowWrap(a, entry),
          glyph |-> NoGlyph, upload |-> NoUpload]
    ELSE LET wrapped == RowWrap(a, entry)
             paged == PageWrap(wrapped, entry, texture)
         IN [ok |-> TRUE, err |-> "",
             atlas |-> AdvanceCursor(paged, entry),
             glyph |-> SubTexture(paged, entry),
             upload |-> Upload(paged, entry)]

\* Atlas::insert.  `texture` is the id create_texture would return.
insert(a, entry, texture) ==
    IF IsFull(a)
    THEN [ok |-> FALSE, err |-> "atlas is full", atlas |-> a,
          glyph |-> NoGlyph, upload |-> NoUpload]
    ELSE LET wrapped == RowWrap(a, entry)
             paged == PageWrap(wrapped, entry, texture)
         IN [ok |-> TRUE, err |-> "",
             atlas |-> AdvanceCursor(paged, entry),
             glyph |-> SubTexture(paged, entry),
             upload |-> Upload(paged, entry)]

\* ------------------------------------------------------------------------
\* State.

VARIABLES
    cache,          \* GlRasterizer.cache: CacheKey -> GlSubTexture
    atlas,          \* GlRasterizer.atlas
    next_texture,   \* OpenGL: the name gl::GenTextures hands out next
    deleted,        \* OpenGL: the names passed to gl::DeleteTextures, in order
    alive,          \* FALSE once the rasterizer (and its atlas) is dropped
    iter,           \* the iterator rasterize_string returned (borrows self)
    yielded,        \* what the consumer of that iterator received so far
    failed_at,      \* position of the character that ended it early, or 0
    result,         \* what the last call returned
    adapter_calls,  \* per key: calls of get_glyph / of the SVG pipeline
    insert_calls,   \* per key: calls of Atlas::insert
    uploads,        \* OpenGL: the gl::TexSubImage2D calls, in order
    failed_calls,   \* calls that ended in an error
    conversion      \* a call of rgb_to_rgba: its argument and its result

vars ==
    <<cache, atlas, next_texture, deleted, alive, iter, yielded, failed_at,
      result, adapter_calls, insert_calls, uploads, failed_calls,
      conversion>>

\* Texts handed to rasterize_string.
Texts == UNION {[1..n -> Chars] : n \in 0..MaxTextLen}

\* No iterator of rasterize_string is around.
IdleIter == [status |-> "idle", text |-> <<>>, pos |-> 1,
             glyph_key |-> glyph_key(" ")]

\* A call that returns no glyph and no error (the constructor, a drop, the
\* creation or the end of an iterator).
Plain(op) ==
    [op |-> op, key |-> NoKey, ok |-> TRUE, err |-> "", glyph |-> NoGlyph,
     entry |-> NoEntry]

\* No call of rgb_to_rgba is looked at.
NoConversion == [rgb |-> <<>>, rgba |-> <<>>, done |-> FALSE]

\* GlRasterizer::new: the atlas is Default::default() (one texture created),
\* the cache is empty.
Init ==
    /\ conversion = NoConversion
    /\ cache = <<>>
    /\ atlas = AtlasDefault(1)
    /\ next_texture = 2
    /\ deleted = <<>>
    /\ alive = TRUE
    /\ iter = IdleIter
    /\ yielded = <<>>
    /\ failed_at = 0
    /\ result = Plain("new")
    /\ adapter_calls = [k \in CacheKeys |-> 0]
    /\ insert_calls = [k \in CacheKeys |-> 0]
    /\ uploads = <<>>
    /\ failed_calls = 0

\* ------------------------------------------------------------------------
\* GlRasterizer.

\* A lookup that finds the entry and still runs the adapter.
CacheHitRasterizing(key) ==
    [ok |-> TRUE, err |-> "", glyph |-> cache[key], cache |-> cache,
     atlas |-> atlas, adapter |-> TRUE, entry |-> NoEntry,
     upload |-> NoUpload]

\* Entry::Occupied(entry) => return Ok(*entry.get())
CacheHit(key) ==
    [ok |-> TRUE, err |-> "", glyph |-> cache[key], cache |-> cache,
     atlas |-> atlas, adapter |-> FALSE, entry |-> NoEntry,
     upload |-> NoUpload]

\* An error returned with `?` before Atlas::insert is reached.
AdapterError(err) ==
    [ok |-> FALSE, err |-> err, glyph |-> NoGlyph, cache |-> cache,
     atlas |-> atlas, adapter |-> TRUE, entry |-> NoEntry,
     upload |-> NoUpload]

\* A miss whose result is returned but never stored.
CacheInsertForgotten(key, glyph) == cache

\* Ok(*entry.insert(glyph)): the vacant entry is filled with what insert
\* returned.
CacheInsert(key, glyph) == (key :> glyph) @@ cache

\* let glyph = self.atlas.insert(entry)?; Ok(*vacant.insert(glyph))
InsertAndCache(key, entry) ==
    LET r == insert(atlas, entry, next_texture)
    IN [ok |-> r.ok, err |-> r.err, glyph |-> r.glyph,
        cache |-> IF r.ok THEN CacheInsert(key, r.glyph) ELSE cache,
        atlas |-> r.atlas, adapter |-> TRUE, entry |-> entry,
        upload |-> r.upload]

\* GlRasterizer::rasterize_char; `answer` is what get_glyph returns if asked.
rasterize_char(character, answer) ==
    LET key == CharacterKey(character)
    IN IF key \in DOMAIN cache THEN CacheHit(key)
       ELSE IF answer = FontError THEN AdapterError(answer.error)
       ELSE InsertAndCache(key, FromRasterizedGlyph(answer))

\* GlRasterizer::rasterize_svg; `answer` is how the SVG pipeline ends if run.
rasterize_svg(svg, answer) ==
    LET key == SvgKey(svg)
        size == SvgSize(svg)
    IN IF key \in DOMAIN cache THEN CacheHit(key)
       ELSE IF answer # "ok" THEN AdapterError(answer)
       ELSE InsertAndCache(key, new_svg(size.width, size.height))

\* The effect of one rasterize_char / rasterize_svg call on the state, with
\* the bookkeeping of the calls it made.  At most `budget` failing calls are
\* explored.
Commit(key, r, budget) ==
    /\ r.ok \/ failed_calls < budget
    /\ cache' = r.cache
    /\ atlas' = r.atlas
    /\ next_texture' = IF Len(r.atlas.textures) > Len(atlas.textures)
                       THEN next_texture + 1
                       ELSE next_texture
    /\ adapter_calls' = IF r.adapter
                        THEN [adapter_calls EXCEPT ![key] = @ + 1]
                        ELSE adapter_calls
    /\ insert_calls' = IF r.entry # NoEntry
                       THEN [insert_calls EXCEPT ![key] = @ + 1]
                       ELSE insert_calls
    /\ uploads' = IF r.upload # NoUpload
                  THEN Append(uploads, [key |-> key, at |-> r.upload])
                  ELSE uploads
    /\ failed_calls' = IF r.ok THEN failed_calls ELSE failed_calls + 1

Returned(op, key, r) ==
    [op |-> op, key |-> key, ok |-> r.ok, err |-> r.err, glyph |-> r.glyph,
     entry |-> r.entry]

\* The rasterizer can be called: it is not dropped and no iterator borrows it.
Callable == alive /\ iter.status # "active"

\* An iterator that ended or was dropped is gone by the next call.
ForgetIter == iter' = IdleIter /\ yielded' = <<>> /\ failed_at' = 0

CallChar(c, answer, budget) ==
    LET r == rasterize_char(c, answer)
    IN /\ Callable
       /\ Commit(CharacterKey(c), r, budget)
       /\ result' = Returned("rasterize_char", CharacterKey(c), r)
       /\ ForgetIter
       /\ UNCHANGED <<deleted, alive, conversion>>

CallSvg(svg, answer, budget) ==
    LET r == rasterize_svg(svg, answer)
    IN /\ Callable
       /\ Commit(SvgKey(svg), r, budget)
       /\ result' = Returned("rasterize_svg", SvgKey(svg), r)
       /\ ForgetIter
       /\ UNCHANGED <<deleted, alive, conversion>>

RasterizeChar ==
    \E c \in Chars, answer \in FontAnswers : CallChar(c, answer, MaxFailedCalls)

RasterizeSvg ==
    \E svg \in SvgInputs, answer \in SvgAnswers :
        CallSvg(svg, answer, MaxFailedCalls)

\* GlRasterizer::rasterize_string: builds the lazy scan; nothing is rasterized
\* until the iterator is advanced.
RasterizeString ==
    \E text \in Texts :
        /\ Callable
        /\ iter' = [status |-> "active", text |-> text, pos |-> 1,
                    glyph_key |-> glyph_key(" ")]
        /\ yielded' = <<>>
        /\ failed_at' = 0
        /\ result' = Plain("rasterize_string")
        /\ UNCHANGED <<cache, atlas, next_texture, deleted, alive,
                       adapter_calls, insert_calls, uploads, failed_calls,
                       conversion>>

\* Kerning added to the horizontal advance alone.
AddKerningXOnly(glyph, k) ==
    [glyph EXCEPT !.advance = <<glyph.advance[1] + F32AsI32(k[1]),
                                glyph.advance[2]>>]

\* glyph.advance.0 += kerning.0 as i32; glyph.advance.1 += kerning.1 as i32
AddKerning(glyph, k) ==
    [glyph EXCEPT !.advance = <<glyph.advance[1] + F32AsI32(k[1]),
                                glyph.advance[2] + F32AsI32(k[2])>>]

\* A scan that stores the kerned glyph back into the cache.
ScannedWritingBack(key, r, glyph) ==
    IF r.ok THEN [r EXCEPT !.cache = (key :> glyph) @@ r.cache] ELSE r

\* `let mut glyph = self.rasterize_char(c).ok()?` is a copy of the cached
\* GlSubTexture: adding the kerning to it leaves the rasterizer as
\* rasterize_char left it.
Scanned(key, r, glyph) == r

\* A scan that skips a failed character and goes on.
StatusSkippingError == "active"

\* What the scan does with a character rasterize_char failed on: `.ok()?`
\* returns None, which ends the iteration.
StatusAfterError == "done"

\* Iterator::next on the scan: the closure of rasterize_string for the next
\* character, or None at the end of the text.
ScanNext ==
    /\ alive
    /\ iter.status = "active"
    /\ IF iter.pos > Len(iter.text)
       THEN /\ iter' = [iter EXCEPT !.status = "done"]
            /\ result' = Plain("next")
            /\ UNCHANGED <<cache, atlas, next_texture, yielded, failed_at,
                           adapter_calls, insert_calls, uploads, failed_calls>>
       ELSE \E answer \in FontAnswers :
            LET c == iter.text[iter.pos]
                r == rasterize_char(c, answer)
                last_key == iter.glyph_key
                new_key == glyph_key(c)
                glyph == IF r.ok
                         THEN AddKerning(r.glyph, kerning(last_key, new_key))
                         ELSE NoGlyph
            IN /\ Commit(CharacterKey(c), Scanned(CharacterKey(c), r, glyph),
                         MaxFailedCalls)
               /\ result' = Returned("next", CharacterKey(c), r)
               /\ IF r.ok
                  THEN /\ iter' = [iter EXCEPT !.pos = iter.pos + 1,
                                               !.glyph_key = new_key]
                       /\ yielded' = Append(yielded, glyph)
                       /\ UNCHANGED failed_at
                  ELSE /\ iter' = [iter EXCEPT !.pos = iter.pos + 1,
                                               !.status = StatusAfterError]
                       /\ failed_at' = IF failed_at = 0 THEN iter.pos
                                       ELSE failed_at
                       /\ UNCHANGED yielded
    /\ UNCHANGED <<deleted, alive, conversion>>

\* The consumer drops the iterator before its end.
DropIterator ==
    /\ alive
    /\ iter.status = "active"
    /\ iter' = [iter EXCEPT !.status = "dropped"]
    /\ result' = Plain("drop_iterator")
    /\ UNCHANGED <<cache, atlas, next_texture, deleted, alive, yielded,
                   failed_at, adapter_calls, insert_calls, uploads,
                   failed_calls, conversion>>

\* A drop that deletes the active texture alone.
TexturesDeletedActiveOnly(a) == <<ActiveTexture(a)>>

\* for texture in &self.textures { gl::DeleteTextures(1, texture) }
TexturesDeleted(a) == a.textures

\* Drop for Atlas, run when the rasterizer is dropped: gl::DeleteTextures for
\* each texture of the atlas.
Drop ==
    /\ Callable
    /\ alive' = FALSE
    /\ deleted' = deleted \o TexturesDeleted(atlas)
    /\ result' = Plain("drop")
    /\ ForgetIter
    /\ UNCHANGED <<cache, atlas, next_texture, adapter_calls, insert_calls,
                   uploads, failed_calls, conversion>>

Next ==
    \/ RasterizeChar
    \/ RasterizeSvg
    \/ RasterizeString
    \/ ScanNext
    \/ DropIterator
    \/ Drop

\* Every operation of the rasterizer, on a small font.
Spec == Init /\ [][Next]_vars

\* ------------------------------------------------------------------------
\* The packing runs: more symbols and every glyph shape, each symbol's
\* adapter succeeding, so that the atlas sees longer sequences of inserts.

PackChar ==
    \E c \in PackChars, answer \in GlyphShapes : CallChar(c, answer, MaxFullCalls)

PackSvg == \E svg \in PackSvgs : CallSvg(svg, "ok", MaxFullCalls)

PackNext == PackChar \/ PackSvg

PackSpec == Init /\ [][PackNext]_vars

\* ------------------------------------------------------------------------
\* rgb_to_rgba on its own: any 3-channel buffer, then its conversion (what
\* From<&RasterizedGlyph> does with a BitmapBuffer::Rgb).

RgbInit ==
    /\ cache = <<>>
    /\ atlas = AtlasDefault(1)
    /\ next_texture = 2
    /\ deleted = <<>>
    /\ alive = TRUE
    /\ iter = IdleIter
    /\ yielded = <<>>
    /\ failed_at = 0
    /\ result = Plain("new")
    /\ adapter_calls = [k \in CacheKeys |-> 0]
    /\ insert_calls = [k \in CacheKeys |-> 0]
    /\ uploads = <<>>
    /\ failed_calls = 0
    /\ \E rgb \in RgbBuffers :
          conversion = [rgb |-> rgb, rgba |-> <<>>, done |-> FALSE]

Convert ==
    /\ ~conversion.done
    /\ conversion' = [conversion EXCEPT !.rgba = rgb_to_rgba(conversion.rgb),
                                        !.done = TRUE]
    /\ UNCHANGED <<cache, atlas, next_texture, deleted, alive, iter, yielded,
                   failed_at, result, adapter_calls, insert_calls, uploads,
                   failed_calls>>

RgbNext == Convert

RgbSpec == RgbInit /\ [][RgbNext]_vars

\* ------------------------------------------------------------------------
\* Properties.

\* The last step was a call of rasterize_char or rasterize_svg (directly, or
\* rasterize_char from the scan of rasterize_string).
IsCall(res) == res.op \in {"rasterize_char", "rasterize_svg", "next"} /\ res.key # NoKey

\* The last step called Atlas::insert.
CalledInsert(res) == IsCall(res) /\ res.entry # NoEntry

RECURSIVE SumOver(_, _)
SumOver(f, S) ==
    IF S = {} THEN 0
    ELSE LET k == CHOOSE x \in S : TRUE IN f[k] + SumOver(f, S \ {k})

\* The uploads made for a key.
UploadsOf(key) == {i \in 1..Len(uploads) : uploads[i].key = key}

\* C1: once a call for a key has returned a placement, the placement is in
\* the cache and stays there unchanged, and every later call for the key
\* returns exactly it, runs neither the adapter nor Atlas::insert (so uploads
\* nothing), and leaves the atlas and the cache as they were.
C1_CachedKeyIsStable ==
    [][/\ (IsCall(result') /\ result'.ok) =>
             /\ result'.key \in DOMAIN cache'
             /\ cache'[result'.key] = result'.glyph
       /\ \A k \in DOMAIN cache :
             /\ k \in DOMAIN cache'
             /\ cache'[k] = cache[k]
             /\ (IsCall(result') /\ result'.key = k) =>
                   /\ result'.ok
                   /\ result'.glyph = cache[k]
                   /\ atlas' = atlas
                   /\ cache' = cache
                   /\ adapter_calls' = adapter_calls
                   /\ insert_calls' = insert_calls
                   /\ uploads' = uploads
                   /\ next_texture' = next_texture]_vars

\* A call for a cached key has just returned: the adapter ran once for it,
\* the call itself reached no insert, and the atlas holds a second texture.
C1_Witness ==
    /\ IsCall(result)
    /\ result.ok
    /\ result.entry = NoEntry
    /\ result.key \in DOMAIN cache
    /\ adapter_calls[result.key] = 1
    /\ Len(atlas.textures) >= 2

\* C2 as stated: whatever errors occur, each key's adapter runs at most once
\* and each key is passed to Atlas::insert at most once.
C2_Original ==
    \A k \in CacheKeys : adapter_calls[k] <= 1 /\ insert_calls[k] <= 1

\* C2 amended: each key is uploaded at most once, and it is cached exactly
\* when it was; a key's adapter and Atlas::insert run once for the call that
\* uploads it and otherwise only in calls that returned an error: the adapter
\* calls of all keys together are the uploads plus the failed calls.
C2_AtMostOnceButForErrors ==
    /\ \A k \in CacheKeys :
          /\ Cardinality(UploadsOf(k)) <= 1
          /\ (k \in DOMAIN cache) <=> (UploadsOf(k) # {})
          /\ insert_calls[k] <= adapter_calls[k]
          /\ adapter_calls[k] <= Cardinality(UploadsOf(k)) + failed_calls
    /\ SumOver(adapter_calls, CacheKeys) = Len(uploads) + failed_calls

\* A key whose first call failed was rasterized again and then uploaded.
C2_Witness ==
    \E k \in CacheKeys :
        /\ adapter_calls[k] = 2
        /\ Cardinality(UploadsOf(k)) = 1
        /\ k \in DOMAIN cache

\* The text positions the iterator has yielded a placement for.
Yielded == 1..Len(yielded)

\* The placement without its advance: where the symbol lies and its metrics.
Place(glyph) == [glyph EXCEPT !.advance = <<0, 0>>]

\* C3: a fully consumed rasterize_string yields one placement per character
\* before the first character rasterize_char fails on (all of them if none
\* fails), in input order; the failing call changes neither cache nor atlas
\* and uploads nothing, and no character is processed after the end.
C3_TruncatesAtFirstError ==
    /\ [](/\ iter.status = "done" =>
                Len(yielded) = IF failed_at = 0 THEN Len(iter.text)
                               ELSE failed_at - 1
          /\ iter.status \in {"active", "done", "dropped"} =>
                /\ Len(yielded) <= Len(iter.text)
                /\ \A i \in Yielded :
                      /\ CharacterKey(iter.text[i]) \in DOMAIN cache
                      /\ Place(yielded[i]) =
                            Place(cache[CharacterKey(iter.text[i])]))
    /\ [][/\ (iter.status = "active" /\ failed_at' # 0) =>
                /\ iter'.status = "done"
                /\ yielded' = yielded
                /\ cache' = cache
                /\ atlas' = atlas
                /\ uploads' = uploads
          /\ iter.status = "done" => result'.op # "next"]_vars

\* The second of three characters failed: one placement was yielded.
C3_Witness ==
    /\ iter.status = "done"
    /\ Len(iter.text) = 3
    /\ failed_at = 2
    /\ Len(yielded) = 1

\* The glyph key before position i of the text: that of the character before,
\* and that of the space character for the first.
KeyBefore(i) == IF i = 1 THEN glyph_key(" ") ELSE glyph_key(iter.text[i - 1])

\* The kerning the font reports for position i of the text.
KerningAt(i) == kerning(KeyBefore(i), glyph_key(iter.text[i]))

\* C4 as stated: a yielded advance is the cached raw advance plus the
\* kerning, the font's own (fractional) value, in x and in y.
C4_Original ==
    \A i \in Yielded :
        LET raw == cache[CharacterKey(iter.text[i])].advance
            k == KerningAt(i)
        IN /\ yielded[i].advance[1] * k[1].den = raw[1] * k[1].den + k[1].num
           /\ yielded[i].advance[2] * k[2].den = raw[2] * k[2].den + k[2].num

Abs(n) == IF n >= 0 THEN n ELSE -n

\* The fraction q (den > 0) truncated toward zero: the integer of q's sign
\* and of the largest magnitude not above q's.
TowardZero(q) ==
    CHOOSE n \in -Abs(q.num)..Abs(q.num) :
        /\ n * q.num >= 0
        /\ Abs(n) * q.den <= Abs(q.num)
        /\ (Abs(n) + 1) * q.den > Abs(q.num)

\* C4 amended: a yielded advance is the cached raw advance plus the kerning
\* truncated toward zero to an integer, in x and in y.
C4_AdvanceIsRawPlusTruncatedKerning ==
    \A i \in Yielded :
        LET raw == cache[CharacterKey(iter.text[i])].advance
            k == KerningAt(i)
        IN yielded[i].advance =
              <<raw[1] + TowardZero(k[1]), raw[2] + TowardZero(k[2])>>

\* "ba" was shaped: 'a' follows 'b', whose kerning is (-3/2, 3/2), and the
\* advance of 'a' is its raw advance with -1 added in x and 1 in y.
C4_Witness ==
    /\ Len(yielded) = 2
    /\ iter.text[1] = "b"
    /\ iter.text[2] = "a"
    /\ yielded[2].advance[1] = cache[CharacterKey("a")].advance[1] - 1
    /\ yielded[2].advance[2] = cache[CharacterKey("a")].advance[2] + 1

\* The placement returned for the i-th upload.
Placed(i) == cache[uploads[i].key]

RECURSIVE WidthSum(_)
WidthSum(n) == IF n = 0 THEN 0 ELSE uploads[n].at.width + WidthSum(n - 1)

\* The first n entries inserted have one height h, 0 < h <= ATLAS_SIZE, and
\* positive widths whose sum is at most ATLAS_SIZE.
OneRowEntries(n) ==
    /\ \A i \in 1..n :
          /\ uploads[i].at.height = uploads[1].at.height
          /\ uploads[i].at.height > 0
          /\ uploads[i].at.height <= ATLAS_SIZE
          /\ uploads[i].at.width > 0
    /\ WidthSum(n) <= ATLAS_SIZE

\* C5: from a fresh atlas, entries of one height and positive widths summing
\* to at most ATLAS_SIZE all lie on the same texture in the same row, with
\* uv_left strictly increasing in insertion order.
C5_OneRow ==
    \A n \in 1..Len(uploads) :
        OneRowEntries(n) =>
            /\ \A i \in 1..n :
                  /\ Placed(i).texture_id = Placed(1).texture_id
                  /\ Placed(i).uv_bot = Placed(1).uv_bot
                  /\ uploads[i].at.y = uploads[1].at.y
            /\ \A i, j \in 1..n :
                  i < j => Placed(i).uv_left.num < Placed(j).uv_left.num

\* Three entries of one height share the first row.
C5_Witness == Len(uploads) >= 3 /\ OneRowEntries(3)

\* C6 as stated: an insert of an entry with cursor_x + width > ATLAS_SIZE
\* leaves cursor_y at its old value plus the old row_height and returns a
\* placement with uv_left = 0.
C6_Original ==
    [][(CalledInsert(result')
          /\ atlas.cursor_x + result'.entry.width > ATLAS_SIZE) =>
             /\ result'.ok
             /\ atlas'.cursor_y = atlas.cursor_y + atlas.row_height
             /\ result'.glyph.uv_left.num = 0]_vars

\* C6 amended: an insert that succeeds for an entry with cursor_x + width >
\* ATLAS_SIZE returns a placement with uv_left = 0; when the new row still has
\* the height for the entry, cursor_y is its old value plus the old
\* row_height and no texture is added; when it has not, a texture is added
\* and cursor_y is 0.
C6_RowWrap ==
    [][(CalledInsert(result') /\ result'.ok
          /\ atlas.cursor_x + result'.entry.width > ATLAS_SIZE) =>
             /\ result'.glyph.uv_left.num = 0
             /\ IF atlas.cursor_y + atlas.row_height + result'.entry.height
                      <= ATLAS_SIZE
                THEN /\ atlas'.cursor_y = atlas.cursor_y + atlas.row_height
                     /\ result'.glyph.uv_bot.num
                           = atlas.cursor_y + atlas.row_height
                     /\ atlas'.textures = atlas.textures
                ELSE /\ atlas'.cursor_y = 0
                     /\ Len(atlas'.textures) = Len(atlas.textures) + 1]_vars

\* An entry no wider than a texture was just placed at the start of a second
\* row of the first texture.
C6_Witness ==
    /\ CalledInsert(result)
    /\ result.ok
    /\ result.glyph.uv_left.num = 0
    /\ result.glyph.uv_bot.num > 0
    /\ atlas.cursor_y = result.glyph.uv_bot.num
    /\ Len(atlas.textures) = 1
    /\ result.entry.width <= ATLAS_SIZE

\* cursor_y after the row-wrap step of an insert of `entry` into atlas `a`.
YAfterRowWrap(a, entry) ==
    IF a.cursor_x + entry.width > ATLAS_SIZE
    THEN a.cursor_y + a.row_height
    ELSE a.cursor_y

\* C7: an insert that passes the overflow check adds a texture exactly when,
\* after its row-wrap step, cursor_y + height > ATLAS_SIZE (an insert the
\* overflow check rejects adds none); it adds exactly one, places the entry at
\* (0, 0) of it, and the texture id it returns is that of no placement
\* returned or uploaded before.
C7_PageWrap ==
    [][CalledInsert(result') =>
          /\ (Len(atlas'.textures) > Len(atlas.textures)) <=>
                /\ result'.ok
                /\ YAfterRowWrap(atlas, result'.entry) + result'.entry.height
                      > ATLAS_SIZE
          /\ \/ atlas'.textures = atlas.textures
             \/ /\ Len(atlas'.textures) = Len(atlas.textures) + 1
                /\ SubSeq(atlas'.textures, 1, Len(atlas.textures))
                      = atlas.textures
                /\ result'.glyph.texture_id
                      = atlas'.textures[Len(atlas'.textures)]
                /\ result'.glyph.uv_left.num = 0
                /\ result'.glyph.uv_bot.num = 0
                /\ \A k \in DOMAIN cache :
                      cache[k].texture_id # result'.glyph.texture_id
                /\ \A i \in 1..Len(uploads) :
                      uploads[i].at.texture # result'.glyph.texture_id]_vars

\* An entry was just placed at (0, 0) of a texture the insert added, with
\* earlier placements on the first texture.
C7_Witness ==
    /\ CalledInsert(result)
    /\ result.ok
    /\ Len(atlas.textures) >= 2
    /\ result.glyph.texture_id = atlas.textures[Len(atlas.textures)]
    /\ Len(uploads) >= 2
    /\ uploads[Len(uploads) - 1].at.texture # result.glyph.texture_id
    /\ uploads[Len(uploads)].at.x = 0
    /\ uploads[Len(uploads)].at.y = 0
    /\ atlas.cursor_x = result.entry.width

\* Every entry inserted so far was of maximal size.
OnlyMaximalEntries ==
    \A i \in 1..Len(uploads) :
        uploads[i].at.width = ATLAS_SIZE /\ uploads[i].at.height = ATLAS_SIZE

\* As many maximal entries were inserted as the runs have characters for.
MaximalEntriesRepeated ==
    OnlyMaximalEntries /\ Len(uploads) = Cardinality(PackChars)

\* C8 as stated: inserting maximal entries again and again brings the cursor
\* beyond ATLAS_SIZE on both axes (after which the next insert fails).
C8_Original ==
    MaximalEntriesRepeated =>
        atlas.cursor_x > ATLAS_SIZE /\ atlas.cursor_y > ATLAS_SIZE

\* C8 amended: inserting maximal entries again and again never brings the
\* cursor beyond ATLAS_SIZE on either axis and no insert fails: each entry
\* after the first gets a texture of its own and lies at (0, 0) of it, and
\* the cursor is back at (ATLAS_SIZE, 0).
C8_MaximalEntriesNeverFill ==
    OnlyMaximalEntries =>
        /\ atlas.cursor_x <= ATLAS_SIZE
        /\ atlas.cursor_y <= ATLAS_SIZE
        /\ failed_calls = 0
        /\ Len(atlas.textures) = Max(1, Len(uploads))
        /\ \A i \in 1..Len(uploads) :
              /\ uploads[i].at.x = 0
              /\ uploads[i].at.y = 0
              /\ uploads[i].at.texture = atlas.textures[i]
        /\ Len(uploads) >= 1 =>
              atlas.cursor_x = ATLAS_SIZE /\ atlas.cursor_y = 0

\* Three maximal entries were inserted, each on a texture of its own.
C8_Witness == MaximalEntriesRepeated /\ Len(atlas.textures) = 3

\* C9: a call of rasterize_char or rasterize_svg that returns an error returns
\* it to the caller with no placement, adds no cache entry for the key, and
\* leaves the cache and the atlas as they were; nothing is uploaded.
C9_ErrorsChangeNothing ==
    [][(IsCall(result') /\ ~result'.ok) =>
          /\ result'.err # ""
          /\ result'.glyph = NoGlyph
          /\ result'.key \notin DOMAIN cache'
          /\ cache' = cache
          /\ atlas' = atlas
          /\ next_texture' = next_texture
          /\ uploads' = uploads]_vars

\* A call for an uncached key has just failed on a full atlas, with other
\* keys cached.
C9_Witness ==
    /\ IsCall(result)
    /\ ~result.ok
    /\ result.err = "atlas is full"
    /\ result.key \notin DOMAIN cache
    /\ DOMAIN cache # {}

\* The cursor is beyond the texture on an axis.
CursorBeyond(a) == a.cursor_x > ATLAS_SIZE \/ a.cursor_y > ATLAS_SIZE

Pixels == 0..((Len(conversion.rgb) \div 3) - 1)

\* C11: rgb_to_rgba of a buffer of 3n bytes is a buffer of 4n bytes whose
\* pixel i holds the 3 bytes of pixel i of the input, in their order, and
\* then 255.
C11_RgbToRgba ==
    conversion.done =>
        /\ Len(conversion.rgba) * 3 = Len(conversion.rgb) * 4
        /\ \A i \in Pixels :
              /\ conversion.rgba[4 * i + 1] = conversion.rgb[3 * i + 1]
              /\ conversion.rgba[4 * i + 2] = conversion.rgb[3 * i + 2]
              /\ conversion.rgba[4 * i + 3] = conversion.rgb[3 * i + 3]
              /\ conversion.rgba[4 * i + 4] = 255

\* A buffer of two pixels of different colours, none of them 255, converted.
C11_Witness ==
    /\ conversion.done
    /\ conversion.rgb = <<0, 128, 0, 128, 128, 0>>
    /\ conversion.rgba = <<0, 128, 0, 255, 128, 128, 0, 255>>

\* The textures created so far: the one of Default for Atlas and those insert
\* added.
Created == 1..(next_texture - 1)

\* How often gl::DeleteTextures was called for a texture.
Deletions(texture) ==
    Cardinality({i \in 1..Len(deleted) : deleted[i] = texture})

\* C12: no texture is deleted before the atlas is dropped; the drop deletes
\* every texture ever created exactly once; and nothing happens to the atlas
\* afterwards: no insert, no upload, no further deletion.
C12_TexturesDeletedOnce ==
    /\ [](/\ alive => deleted = <<>>
          /\ ~alive => \A texture \in Created : Deletions(texture) = 1
          /\ ~alive => Len(deleted) = Len(atlas.textures)
          /\ \A i \in 1..Len(atlas.textures) : atlas.textures[i] \in Created)
    /\ [][~alive =>
             /\ uploads' = uploads
             /\ insert_calls' = insert_calls
             /\ atlas' = atlas
             /\ deleted' = deleted]_vars

\* A dropped atlas of two textures, both deleted, that had entries uploaded.
C12_Witness ==
    /\ ~alive
    /\ Len(atlas.textures) = 2
    /\ Len(deleted) = 2
    /\ Len(uploads) >= 2

\* The entry is wider or taller than a texture.
Oversized(entry) == entry.width > ATLAS_SIZE \/ entry.height > ATLAS_SIZE

\* C13 as stated: an insert of an entry wider or taller than ATLAS_SIZE
\* returns no placement for it.
C13_Original ==
    [][(CalledInsert(result') /\ Oversized(result'.entry)) =>
          ~result'.ok /\ result'.glyph = NoGlyph]_vars

\* C14 as stated: cursor_x, cursor_y and row_height stay within
\* 0..ATLAS_SIZE, there is always a texture, and the texture of the latest
\* upload, the one the placement names, is the last of the list.
C14_Original ==
    /\ atlas.cursor_x \in 0..ATLAS_SIZE
    /\ atlas.cursor_y \in 0..ATLAS_SIZE
    /\ atlas.row_height \in 0..ATLAS_SIZE
    /\ Len(atlas.textures) >= 1
    /\ (CalledInsert(result) /\ result.ok) =>
          /\ uploads[Len(uploads)].at.texture =
                 atlas.textures[Len(atlas.textures)]
          /\ result.glyph.texture_id = atlas.textures[Len(atlas.textures)]

\* C15 as stated: the placement a successful insert returns lies inside its
\* texture: left, bottom, width and height are within 0..ATLAS_SIZE (each UV
\* component in [0, 1]) and so are left + width and bottom + height.
C15_Original ==
    (CalledInsert(result) /\ result.ok) =>
        LET glyph == result.glyph
        IN /\ glyph.uv_left.num \in 0..ATLAS_SIZE
           /\ glyph.uv_bot.num \in 0..ATLAS_SIZE
           /\ glyph.uv_width.num \in 0..ATLAS_SIZE
           /\ glyph.uv_height.num \in 0..ATLAS_SIZE
           /\ glyph.uv_left.num + glyph.uv_width.num <= ATLAS_SIZE
           /\ glyph.uv_bot.num + glyph.uv_height.num <= ATLAS_SIZE

\* The textures of the atlas, as a set.
Textures(a) == {a.textures[i] : i \in 1..Len(a.textures)}

\* C16: until the rasterizer is dropped, every cached GlSubTexture names a
\* texture of the atlas; the list of textures changes only by an insert
\* appending one texture to it.
C16_CachedTexturesAreListed ==
    /\ [](alive => \A key \in DOMAIN cache :
                       cache[key].texture_id \in Textures(atlas))
    /\ [][\/ atlas.textures' = atlas.textures
          \/ /\ CalledInsert(result')
             /\ \E texture \in 1..next_texture :
                    atlas.textures' = Append(atlas.textures, texture)]_vars

\* Glyphs are cached on the first and on the second texture of a live atlas.
C16_Witness ==
    /\ alive
    /\ Len(atlas.textures) = 2
    /\ \E k1, k2 \in DOMAIN cache :
          /\ cache[k1].texture_id = atlas.textures[1]
          /\ cache[k2].texture_id = atlas.textures[2]

\* The atlas of an insert at the upload: after the new row and the new
\* texture, if any, and before the write position is updated.
AtUpload(entry) == PageWrap(RowWrap(atlas, entry), entry, next_texture)

\* What a successful insert returns and leaves behind, but for the four i16
\* fields of the GlSubTexture.
PlacedAtCursor(entry, glyph, at) ==
    /\ glyph.texture_id = atlas'.textures[Len(atlas'.textures)]
    /\ uploads' = Append(uploads, [key |-> result'.key,
                                   at |-> [texture |-> glyph.texture_id,
                                           x |-> at.cursor_x,
                                           y |-> at.cursor_y,
                                           width |-> entry.width,
                                           height |-> entry.height]])
    /\ glyph.uv_left.num = at.cursor_x /\ glyph.uv_left.den = ATLAS_SIZE
    /\ glyph.uv_bot.num = at.cursor_y /\ glyph.uv_bot.den = ATLAS_SIZE
    /\ glyph.advance = entry.advance
    /\ glyph.multicolor = entry.multicolor
    /\ atlas'.row_height = Max(at.row_height, entry.height)
    /\ atlas'.cursor_x = at.cursor_x + entry.width
    /\ atlas'.cursor_y = at.cursor_y

\* The entry and the placement of an icon.
IconPlaced(key, entry, glyph) ==
    key[1] = "Svg" =>
        /\ entry.width = SvgSize(key[2]).width
        /\ entry.height = SvgSize(key[2]).height
        /\ glyph.top = 0
        /\ glyph.left = 0
        /\ glyph.advance = <<entry.width, 0>>
        /\ glyph.multicolor

\* x as the i16 of GlSubTexture holds it: x itself if it is an i16, and else
\* the i16 that differs from it by a multiple of 2^16.
Narrowed(x, y) == y \in -32768..32767 /\ (x - y) % 65536 = 0

\* C17 as stated: a successful insert returns the texture and the position
\* of the upload and the entry's width, height, top, left, advance and
\* multicolor flag unchanged.
C17_Original ==
    [][(CalledInsert(result') /\ result'.ok) =>
          LET entry == result'.entry
              glyph == result'.glyph
          IN /\ PlacedAtCursor(entry, glyph, AtUpload(entry))
             /\ IconPlaced(result'.key, entry, glyph)
             /\ glyph.width = entry.width
             /\ glyph.height = entry.height
             /\ glyph.top = entry.top
             /\ glyph.left = entry.left]_vars

\* C17 amended: width, height, top and left of the placement are the
\* entry's values narrowed to i16: unchanged within -32768..32767, wrapped
\* by a multiple of 2^16 beyond.
C17_PlacementOfInsert ==
    [][(CalledInsert(result') /\ result'.ok) =>
          LET entry == result'.entry
              glyph == result'.glyph
          IN /\ PlacedAtCursor(entry, glyph, AtUpload(entry))
             /\ IconPlaced(result'.key, entry, glyph)
             /\ Narrowed(entry.width, glyph.width)
             /\ Narrowed(entry.height, glyph.height)
             /\ Narrowed(entry.top, glyph.top)
             /\ Narrowed(entry.left, glyph.left)
             /\ entry.width \in -32768..32767 => glyph.width = entry.width
             /\ entry.top \in -32768..32767 => glyph.top = entry.top]_vars

\* An icon was placed, then a glyph, then in a new row a glyph with top =
\* 40000, returned with top = -25536.
C17_Witness ==
    /\ CalledInsert(result)
    /\ result.ok
    /\ result.entry.top = 40000
    /\ result.glyph.top = -25536
    /\ result.glyph.uv_bot.num > 0
    /\ SvgKey("Battery20") \in DOMAIN cache
    /\ cache[SvgKey("Battery20")].width = 22
    /\ Len(uploads) = 3

\* Every entry uploaded so far has a width and a height in 1..ATLAS_SIZE.
AllWithinTexture ==
    \A i \in 1..Len(uploads) :
        /\ uploads[i].at.width \in 1..ATLAS_SIZE
        /\ uploads[i].at.height \in 1..ATLAS_SIZE

\* The pixel rectangles of two uploads have no pixel in common.
Disjoint(r, s) ==
    \/ r.x + r.width <= s.x
    \/ s.x + s.width <= r.x
    \/ r.y + r.height <= s.y
    \/ s.y + s.height <= r.y

\* C18: when every entry inserted so far, glyph or icon, has a width and a
\* height in 1..ATLAS_SIZE, any two uploads to the same texture cover disjoint
\* rectangles, which are those the cached placements describe.
C18_PlacementsDisjoint ==
    AllWithinTexture =>
        /\ \A i, j \in 1..Len(uploads) :
              (i # j /\ uploads[i].at.texture = uploads[j].at.texture) =>
                  Disjoint(uploads[i].at, uploads[j].at)
        /\ \A i \in 1..Len(uploads) :
              /\ Placed(i).texture_id = uploads[i].at.texture
              /\ Placed(i).uv_left.num = uploads[i].at.x
              /\ Placed(i).uv_bot.num = uploads[i].at.y
              /\ Placed(i).uv_width.num = uploads[i].at.width
              /\ Placed(i).uv_height.num = uploads[i].at.height

\* Four entries that fit a texture, an icon among them, were placed: two
\* share a row and two lie in different rows of one texture.
C18_Witness ==
    /\ AllWithinTexture
    /\ Len(uploads) = 4
    /\ \E i \in 1..4 : uploads[i].key[1] = "Svg"
    /\ \E i, j \in 1..4 :
          /\ i # j
          /\ uploads[i].at.texture = uploads[j].at.texture
          /\ uploads[i].at.y = uploads[j].at.y
    /\ \E i, j \in 1..4 :
          /\ uploads[i].at.texture = uploads[j].at.texture
          /\ uploads[i].at.y < uploads[j].at.y

\* Every entry uploaded so far has a width and a height in 0..ATLAS_SIZE.
AllAtMostTexture ==
    \A i \in 1..Len(uploads) :
        /\ uploads[i].at.width \in 0..ATLAS_SIZE
        /\ uploads[i].at.height \in 0..ATLAS_SIZE

\* C19: as long as every entry inserted has a width and a height in
\* 0..ATLAS_SIZE, the cursor is never beyond ATLAS_SIZE and no insert fails:
\* an entry that does not fit the texture gets a new one.
C19_NeverFull ==
    /\ [](AllAtMostTexture => failed_calls = 0 /\ ~CursorBeyond(atlas))
    /\ [][(AllAtMostTexture /\ CalledInsert(result')) =>
             /\ result'.ok
             /\ Len(uploads') = Len(uploads) + 1
             /\ Len(atlas'.textures) \in
                    {Len(atlas.textures), Len(atlas.textures) + 1}]_vars

\* Four entries no larger than a texture were inserted and the atlas has added
\* three textures to its first for them.
C19_Witness ==
    /\ AllAtMostTexture
    /\ Len(uploads) = 4
    /\ Len(atlas.textures) = 4
    /\ CalledInsert(result)
    /\ result.ok
    /\ failed_calls = 0

\* C20: the kerning of rasterize_string never reaches the cache.  A key is
\* cached with the advance of the entry the font produced, whatever kerning
\* the scan that rasterized it added to the copy it yields; a cached placement
\* never changes afterwards and is what rasterize_char returns; so the same
\* character after the same neighbour is yielded with the same advance each
\* time.
C20_KerningLeavesCache ==
    /\ [][/\ \A key \in DOMAIN cache' :
                IF key \in DOMAIN cache
                THEN cache'[key] = cache[key]
                ELSE /\ result'.key = key
                     /\ cache'[key].advance = result'.entry.advance
          /\ (result'.op = "rasterize_char" /\ result'.ok) =>
                result'.glyph = cache'[result'.key]]_vars
    /\ [](\A i, j \in Yielded :
              (iter.text[i] = iter.text[j] /\ KeyBefore(i) = KeyBefore(j)) =>
                  yielded[i].advance = yielded[j].advance)

\* "aaa" was shaped: 'a' after 'a' has the kerning (5/2, 0); the second and
\* the third 'a' are both yielded with the raw advance 520 plus 2, and the
\* cache still holds 520.
C20_Witness ==
    /\ iter.text = <<"a", "a", "a">>
    /\ Len(yielded) = 3
    /\ cache[CharacterKey("a")].advance = <<520, 0>>
    /\ yielded[2].advance = <<522, 0>>
    /\ yielded[3].advance = <<522, 0>>

====
